---- MODULE Spec2Model ----
(***************************************************************************)
(* A model of src/src/pgclient.c (pspg): pg_exec_query reads a query       *)
(* result from libpq, copies the header and every row into packed records, *)
(* appends them to a chain of 1000-slot buckets (push_row) and folds every *)
(* field into the per-column layout of PrintDataDesc (field_info, max_int, *)
(* column_type_class).                                                     *)
(*                                                                         *)
(* Texts are C strings: sequences of non-zero bytes.  Arrays are indexed   *)
(* from 0 as in the source; a pointer into a buffer is its byte offset.    *)
(***************************************************************************)
EXTENDS Integers, Sequences, FiniteSets, TLC

(***************************************************************************)
(* Program constants.                                                      *)
(***************************************************************************)
\* '\0', the C string terminator
NUL == 0
\* '\n'
LF == 10
\* capacity of one RowBucketType (push_row's test)
BUCKET_ROWS == 1000
\* the largest column count pg_exec_query accepts
MAX_FIELDS == 1024
\* the bytes of the global errmsg
ERRMSG_SIZE == 1024

(***************************************************************************)
(* Bounds of the model.                                                    *)
(***************************************************************************)
\* data rows of a small result: 0 .. MaxRows
MaxRows == 2
\* length of the texts handed to field_info on its own
MaxStrLen == 6
\* appends made to a store on its own
MaxPush == 2001

NULL == 0

Max(a, b) == IF a > b THEN a ELSE b

(***************************************************************************)
(* C strings.                                                              *)
(***************************************************************************)
strlen(s) == Len(s)

\* the index (1-based) of the first NUL at or after offset off, or one past
\* the end of the buffer when there is none
CStrEnd(buf, off) ==
    IF \E k \in (off + 1)..Len(buf) : buf[k] = NUL
    THEN CHOOSE k \in (off + 1)..Len(buf) :
            buf[k] = NUL /\ \A m \in (off + 1)..(k - 1) : buf[m] # NUL
    ELSE Len(buf) + 1

\* the C string that starts at offset off of buf
CStr(buf, off) == SubSeq(buf, off + 1, CStrEnd(buf, off) - 1)

\* strcpy(buf + off, s): the bytes of s and a terminator
strcpy(buf, off, s) ==
    SubSeq(buf, 1, off) \o s \o <<NUL>> \o SubSeq(buf, off + Len(s) + 2, Len(buf))

\* malloc(size) when it succeeds: size bytes nobody has written yet
malloc(size) == [k \in 1..size |-> 255]

HasLF(s) == \E k \in 1..Len(s) : s[k] = LF

(***************************************************************************)
(* field_info: the display width of a text (its widest line) and whether   *)
(* it holds a line break.  `multiline` is the value the caller's flag      *)
(* holds on entry; the result's multiline is what it holds on return.      *)
(***************************************************************************)
\* the force8bit loop: one byte per step, cw the width of the current line
RECURSIVE field_info_8bit(_, _, _, _, _)
field_info_8bit(str, k, cw, width, multiline) ==
    IF k > Len(str)
    THEN [width |-> IF cw > width THEN cw ELSE width, multiline |-> multiline]
    ELSE IF str[k] = LF
         THEN field_info_8bit(str, k + 1, 0, IF cw > width THEN cw ELSE width, TRUE)
         ELSE field_info_8bit(str, k + 1, cw + 1, width, multiline)

\* bytes of the UTF-8 character a lead byte starts (a stray byte counts as one)
utf8charlen(b) ==
    IF b < 128 THEN 1
    ELSE IF b >= 192 /\ b < 224 THEN 2
    ELSE IF b >= 224 /\ b < 240 THEN 3
    ELSE IF b >= 240 /\ b < 248 THEN 4
    ELSE 1

\* terminal cells of the character a lead byte starts: combining marks
\* (U+0300..U+033F, lead 0xCC) take none, CJK ideographs (leads 0xE4..0xE9)
\* take two, everything else (a malformed byte included) takes one
utf_dsplen(b) ==
    IF b = 204 THEN 0
    ELSE IF b >= 228 /\ b <= 233 THEN 2
    ELSE 1

RECURSIVE utf_scan(_, _, _, _, _)
utf_scan(str, k, rowlen, result, multiline) ==
    IF k > Len(str)
    THEN [width |-> Max(result, rowlen), multiline |-> multiline]
    ELSE IF str[k] = LF
         THEN utf_scan(str, k + 1, 0, Max(result, rowlen), TRUE)
         ELSE utf_scan(str, k + utf8charlen(str[k]), rowlen + utf_dsplen(str[k]),
                       result, multiline)

\* the default mode's calculator: it clears the flag, then scans characters
utf_string_dsplen_multiline(str, max_bytes) ==
    utf_scan(SubSeq(str, 1, max_bytes), 1, 0, 0, FALSE)

field_info(o, str, multiline) ==
    IF o.force8bit
    THEN field_info_8bit(str, 1, 0, 0, multiline)
    ELSE utf_string_dsplen_multiline(str, strlen(str))

max_int_second(a, b) == b

max_int(a, b) == IF a > b THEN a ELSE b

(***************************************************************************)
(* column_type_class: the alignment class of a column type.                *)
(***************************************************************************)
NumericOids == {"INT2OID", "INT4OID", "INT8OID", "FLOAT4OID", "FLOAT8OID",
                "NUMERICOID", "OIDOID", "XIDOID", "CIDOID", "CASHOID"}

OtherOids == {"TEXTOID", "BOOLOID", "TIMESTAMPOID", "BYTEAOID", "InvalidOid"}

Oids == NumericOids \cup OtherOids

column_type_class_no_cash(ftype) ==
    IF ftype \in NumericOids \ {"CASHOID"} THEN "d" ELSE "a"

column_type_class(ftype) ==
    IF ftype \in NumericOids THEN "d" ELSE "a"

(***************************************************************************)
(* The store: a heap of buckets.  buckets[1] is the caller's head bucket;  *)
(* a bucket pointer is an index into the heap, NULL is 0.  A bucket's      *)
(* rows and multilines hold the slots written so far (slot s at s + 1);    *)
(* only slots 0 .. nrows-1 count.                                          *)
(***************************************************************************)
SetSlot_shifting(arr, slot, v) == <<v>> \o arr

SetSlot(arr, slot, v) ==
    IF slot + 1 <= Len(arr) THEN [arr EXCEPT ![slot + 1] = v]
    ELSE Append(arr, v)

\* lines 54-55: the append into bucket rb
store_row(bk, rb, row, is_multiline) ==
    [buckets |-> [bk EXCEPT ![rb] =
                    [@ EXCEPT !.rows = SetSlot(@, bk[rb].nrows, row),
                              !.multilines = SetSlot(@, bk[rb].nrows, is_multiline),
                              !.nrows = @ + 1]],
     rb |-> rb]

\* the bucket push_row initialises at lines 46-48
new_bucket ==
    [nrows |-> 0, allocated |-> TRUE, next_bucket |-> NULL,
     rows |-> <<>>, multilines |-> <<>>]

\* `new` is what malloc returned: NULL, or the address of a fresh bucket
push_row_late(bk, rb, row, is_multiline, new) ==
    IF bk[rb].nrows > BUCKET_ROWS
    THEN IF new = NULL
         THEN [buckets |-> bk, rb |-> NULL]
         ELSE store_row(Append([bk EXCEPT ![rb].next_bucket = new], new_bucket),
                        new, row, is_multiline)
    ELSE store_row(bk, rb, row, is_multiline)

push_row_stores_before_test(bk, rb, row, is_multiline, new) ==
    IF bk[rb].nrows >= BUCKET_ROWS
    THEN IF new = NULL
         THEN [buckets |-> store_row(bk, rb, row, is_multiline).buckets, rb |-> NULL]
         ELSE store_row(Append([bk EXCEPT ![rb].next_bucket = new], new_bucket),
                        new, row, is_multiline)
    ELSE store_row(bk, rb, row, is_multiline)

push_row_no_link(bk, rb, row, is_multiline, new) ==
    IF bk[rb].nrows >= BUCKET_ROWS
    THEN IF new = NULL
         THEN [buckets |-> bk, rb |-> NULL]
         ELSE store_row(Append(bk, new_bucket), new, row, is_multiline)
    ELSE store_row(bk, rb, row, is_multiline)

push_row(bk, rb, row, is_multiline, new) ==
    IF bk[rb].nrows >= BUCKET_ROWS
    THEN IF new = NULL
         THEN [buckets |-> bk, rb |-> NULL]
         ELSE store_row(Append([bk EXCEPT ![rb].next_bucket = new], new_bucket),
                        new, row, is_multiline)
    ELSE store_row(bk, rb, row, is_multiline)

\* the records met from bucket b along next_bucket, slots 0 .. nrows-1 of each
RECURSIVE Traverse(_, _)
Traverse(bk, b) ==
    IF b = NULL THEN <<>>
    ELSE SubSeq(bk[b].rows, 1, bk[b].nrows) \o Traverse(bk, bk[b].next_bucket)

RECURSIVE TraverseFlags(_, _)
TraverseFlags(bk, b) ==
    IF b = NULL THEN <<>>
    ELSE SubSeq(bk[b].multilines, 1, bk[b].nrows) \o TraverseFlags(bk, bk[b].next_bucket)

\* the buckets of the chain that starts at b
RECURSIVE Chain(_, _)
Chain(bk, b) == IF b = NULL THEN <<>> ELSE <<b>> \o Chain(bk, bk[b].next_bucket)

(***************************************************************************)
(* The external source (libpq): what the server answers to this call.      *)
(***************************************************************************)
\* "", "e-acute 1" (three bytes, two cells), "2" and a line break
Texts == {<<>>, <<195, 169, 49>>, <<50, LF>>}

TextAt(k) == IF k % 3 = 0 THEN <<195, 169, 49>>
             ELSE IF k % 3 = 1 THEN <<50, LF>>
             ELSE <<>>

\* the field texts of one record of n columns
Records(n) == [1..n -> Texts]

SmallNFields == {0, 1, 2}

Answer(nf, nt, types, names, values) ==
    [conn_ok |-> TRUE, tuples_ok |-> TRUE, errtext |-> <<>>,
     nfields |-> nf, ntuples |-> nt, ftype |-> types, fname |-> names,
     value |-> values]

\* Small results with every choice of texts.  The server fixed the whole
\* result before PQexec returned; the model draws a data row of a small
\* result when the program is about to read it first (RevealRow), which the
\* program cannot tell apart.  value holds the rows drawn so far.
TextTables ==
    UNION { { Answer(n, r, [k \in 1..n |-> IF k = 1 THEN "INT4OID" ELSE "TEXTOID"],
                     names, <<>>) :
                names \in Records(n), r \in 0..MaxRows } :
            n \in SmallNFields }

\* one column of every type, a row whose value looks numeric
TypeTables ==
    { Answer(1, 1, <<t>>, << <<195, 169, 49>> >>, << << <<50, LF>> >> >>) : t \in Oids }

\* one column and enough rows to fill the head bucket and start a second one
BigTables ==
    { Answer(1, BUCKET_ROWS, <<"INT4OID">>, << <<50, LF>> >>,
             [r \in 1..BUCKET_ROWS |-> << TextAt(r) >>]) }

\* the widest result accepted, and one column more (nothing of it is read)
WideTables ==
    { Answer(MAX_FIELDS, 1,
             [k \in 1..MAX_FIELDS |-> IF k % 2 = 0 THEN "NUMERICOID" ELSE "TEXTOID"],
             [k \in 1..MAX_FIELDS |-> TextAt(k)],
             << [k \in 1..MAX_FIELDS |-> TextAt(k + 1)] >>),
      Answer(MAX_FIELDS + 1, 0, <<>>, <<>>, <<>>) }

\* the connection is refused, or the query yields no tuples
FailSources ==
    { [conn_ok |-> c, tuples_ok |-> FALSE, errtext |-> e,
       nfields |-> 0, ntuples |-> 0, ftype |-> <<>>, fname |-> <<>>, value |-> <<>>] :
        c \in BOOLEAN, e \in {<<>>, <<101, 114, 114, LF>>} }

Sources == TextTables \cup TypeTables \cup BigTables \cup WideTables \cup FailSources

(***************************************************************************)
(* What the caller hands in: a fresh head bucket and layout, or used ones. *)
(***************************************************************************)
PreStates == {"clean", "dirty"}

\* a RowType: id stands for its address (the order of allocation), fields
\* are offsets into buf, the packed payload
JunkRow == [id |-> 0 - 1, nfields |-> 0, fields |-> <<>>, buf |-> <<>>]

PreBucket(p) ==
    IF p = "clean"
    THEN [nrows |-> 0, allocated |-> FALSE, next_bucket |-> NULL,
          rows |-> <<>>, multilines |-> <<>>]
    ELSE [nrows |-> 2, allocated |-> FALSE, next_bucket |-> 7,
          rows |-> <<JunkRow, JunkRow>>, multilines |-> <<TRUE, TRUE>>]

\* An array of PrintDataDesc (MAX_FIELDS entries) is kept as the entries
\* written during this call, by index; every other entry still holds what
\* the caller handed in.
NoWrites == [c \in {} |-> 0]

PreDesc(p) ==
    [nfields |-> IF p = "clean" THEN 0 ELSE 5, has_header |-> FALSE,
     types |-> NoWrites, widths |-> NoWrites, multilines |-> NoWrites]

PreType(p) == IF p = "clean" THEN "a" ELSE "x"
PreWidth(p) == IF p = "clean" THEN 0 ELSE 9
PreMultiline(p) == p # "clean"

\* arr[c] = v
ArrSet(arr, c, v) == (c :> v) @@ arr

PreErr(p) == IF p = "clean" THEN "NULL" ELSE "stale"

NoMsg == [fmt |-> "", arg |-> <<>>, written |-> 0]

VARIABLES
    pc,             \* where pg_exec_query stands
    opts,           \* Options: force8bit
    source,         \* what libpq answers
    pre,            \* what the caller handed in
    conn, result,   \* the PGconn and PGresult handles
    calls,          \* the libpq and exit calls made so far, in order
    buckets, rb,    \* the heap of buckets and the local rb
    pdesc,          \* PrintDataDesc
    err, errmsg,    \* the caller's *err and the global buffer
    ret, exitmsg,   \* the value returned; the message the process died with
    nfields, i, row, multiline_row, multiline_col,   \* locals
    nfolded,        \* records folded into pdesc so far
    npush,          \* appends made so far
    fi,             \* field_info on its own: its arguments and result
    failed,         \* the allocation malloc refused, and its size
    err_arg         \* the parameter err itself: where it points

vars == <<pc, opts, source, pre, conn, result, calls, buckets, rb, pdesc, err,
          errmsg, ret, exitmsg, nfields, i, row, multiline_row, multiline_col,
          nfolded, npush, fi, failed, err_arg>>

\* the entries of pdesc's arrays as the program reads them
Types(arr, c) == IF c \in DOMAIN arr THEN arr[c] ELSE PreType(pre)
Widths(arr, c) == IF c \in DOMAIN arr THEN arr[c] ELSE PreWidth(pre)
Multilines(arr, c) == IF c \in DOMAIN arr THEN arr[c] ELSE PreMultiline(pre)

NoCall == [str |-> <<>>, multiline |-> FALSE, done |-> FALSE, width |-> 0]

\* no allocation has been refused
NoFailure == [what |-> "none", size |-> 0]

Init ==
    /\ pc = "start"
    /\ opts \in [force8bit : BOOLEAN]
    /\ source \in Sources
    /\ pre \in PreStates
    \* the long result is followed in one mode, on a head bucket in use
    /\ source \in BigTables => (opts.force8bit /\ pre = "dirty")
    /\ conn = "NULL"
    /\ result = "NULL"
    /\ calls = <<>>
    /\ buckets = <<PreBucket(pre)>>
    /\ rb = 1
    /\ pdesc = PreDesc(pre)
    /\ err = PreErr(pre)
    /\ errmsg = NoMsg
    /\ ret = "none"
    /\ exitmsg = ""
    /\ nfields = 0
    /\ i = 0
    /\ row = JunkRow
    /\ multiline_row = FALSE
    /\ multiline_col = FALSE
    /\ nfolded = 0
    /\ npush = 0
    /\ fi = NoCall
    /\ failed = NoFailure
    /\ err_arg = "caller"

(***************************************************************************)
(* libpq and the exit paths.                                               *)
(***************************************************************************)
PQnfields == source.nfields
PQntuples == source.ntuples
PQfname(c) == source.fname[c + 1]
PQftype(c) == source.ftype[c + 1]
PQgetvalue(r, c) == source.value[r + 1][c + 1]
PQerrorMessage == source.errtext

\* PQclear(NULL) does nothing
PQclear(res) == IF res = "NULL" THEN "NULL" ELSE "cleared"
PQfinish(cn) == IF cn = "NULL" THEN "NULL" ELSE "finished"

\* leave_ncurses ends the process with a message
leave_ncurses(s) == [pc |-> "exited", exitmsg |-> s]

EXIT_OUT_OF_MEMORY_no_finish ==
    [result |-> PQclear(result), conn |-> conn,
     calls |-> calls \o <<"PQclear", "leave_ncurses">>,
     err |-> err, ret |-> ret,
     pc |-> leave_ncurses("out of memory").pc,
     exitmsg |-> leave_ncurses("out of memory").exitmsg]

EXIT_OUT_OF_MEMORY ==
    [result |-> PQclear(result), conn |-> PQfinish(conn),
     calls |-> calls \o <<"PQclear", "PQfinish", "leave_ncurses">>,
     err |-> err, ret |-> ret,
     pc |-> leave_ncurses("out of memory").pc,
     exitmsg |-> leave_ncurses("out of memory").exitmsg]

RELEASE_AND_LEAVE_no_err(s) ==
    [result |-> PQclear(result), conn |-> PQfinish(conn),
     calls |-> calls \o <<"PQclear", "PQfinish", "return">>,
     err |-> err, ret |-> "false", pc |-> "returned", exitmsg |-> exitmsg]

RELEASE_AND_LEAVE(s) ==
    [result |-> PQclear(result), conn |-> PQfinish(conn),
     calls |-> calls \o <<"PQclear", "PQfinish", "return">>,
     err |-> s, ret |-> "false", pc |-> "returned", exitmsg |-> exitmsg]

RELEASE_AND_EXIT(s) ==
    [result |-> PQclear(result), conn |-> PQfinish(conn),
     calls |-> calls \o <<"PQclear", "PQfinish", "leave_ncurses">>,
     err |-> err, ret |-> ret,
     pc |-> leave_ncurses(s).pc, exitmsg |-> leave_ncurses(s).exitmsg]

\* the way out an exit macro or the final return describes
Leave(out) ==
    /\ result' = out.result
    /\ conn' = out.conn
    /\ calls' = out.calls
    /\ err' = out.err
    /\ ret' = out.ret
    /\ pc' = out.pc
    /\ exitmsg' = out.exitmsg

finish_and_return_keeps_err ==
    [result |-> PQclear(result), conn |-> PQfinish(conn),
     calls |-> calls \o <<"PQclear", "PQfinish", "return">>,
     err |-> err, ret |-> "true", pc |-> "returned", exitmsg |-> exitmsg]

\* lines 260-265: the releases and the return of a completed call
finish_and_return ==
    [result |-> PQclear(result), conn |-> PQfinish(conn),
     calls |-> calls \o <<"PQclear", "PQfinish", "return">>,
     err |-> "NULL", ret |-> "true", pc |-> "returned", exitmsg |-> exitmsg]

\* sprintf(errmsg, fmt, arg) with one %s: it writes the format with the two
\* bytes of %s replaced by arg, and a terminator, however long that is
sprintf(fmt, arg) ==
    [fmt |-> fmt, arg |-> arg, written |-> (Len(fmt) - 2) + strlen(arg) + 1]

\* a write past the end of errmsg: what the program does from there on is
\* undefined, and the model follows it no further
overrun ==
    [result |-> result, conn |-> conn, calls |-> calls, err |-> err, ret |-> ret,
     pc |-> "undefined", exitmsg |-> exitmsg]

too_many_columns_at_limit(n) == n >= MAX_FIELDS

\* line 179
too_many_columns(n) == n > MAX_FIELDS

(***************************************************************************)
(* Building one record: the payload size, the copy of every field and the  *)
(* fold of every field into the layout.                                    *)
(***************************************************************************)
\* lines 188-190 and 225-227: the sum of strlen + 1 over texts[lo+1 .. hi]
\* (the range is halved so that a wide record is summed at a small depth)
RECURSIVE payload_size(_, _, _)
payload_size(texts, lo, hi) ==
    IF lo >= hi THEN 0
    ELSE IF hi = lo + 1 THEN strlen(texts[hi]) + 1
    ELSE payload_size(texts, lo, (lo + hi) \div 2)
         + payload_size(texts, (lo + hi) \div 2, hi)

advance_no_terminator(locbuf, s) == locbuf + strlen(s)

\* lines 210 and 247: locbuf += strlen(s) + 1
advance(locbuf, s) == locbuf + strlen(s) + 1

\* lines 206-215: one pass of the header loop, for column c
header_field(c, st) ==
    LET name == PQfname(c)
        buf == strcpy(st.buf, st.locbuf, name)
        info == field_info(opts, CStr(buf, st.locbuf), st.multiline_col)
    IN  [buf |-> buf,
         fields |-> Append(st.fields, st.locbuf),
         locbuf |-> advance(st.locbuf, name),
         widths |-> ArrSet(st.widths, c, info.width),
         multilines |-> ArrSet(st.multilines, c, info.multiline),
         multiline_col |-> info.multiline,
         multiline_row |-> (st.multiline_row \/ info.multiline)]

\* lines 204-216: the passes for columns lo .. hi-1, in order.  The range is
\* halved to keep the evaluation shallow; the test on the first half's
\* result only makes it computed before the second half starts.
RECURSIVE header_loop(_, _, _)
header_loop(lo, hi, st) ==
    IF lo >= hi THEN st
    ELSE IF hi = lo + 1 THEN header_field(lo, st)
    ELSE LET half == header_loop(lo, (lo + hi) \div 2, st)
         IN  IF half.locbuf >= 0 THEN header_loop((lo + hi) \div 2, hi, half)
             ELSE half

\* lines 243-252: one pass of the data loop, for row r and column c
row_field(r, c, st) ==
    LET value == PQgetvalue(r, c)
        buf == strcpy(st.buf, st.locbuf, value)
        info == field_info(opts, CStr(buf, st.locbuf), st.multiline_col)
    IN  [buf |-> buf,
         fields |-> Append(st.fields, st.locbuf),
         locbuf |-> advance(st.locbuf, value),
         widths |-> ArrSet(st.widths, c, max_int(Widths(st.widths, c), info.width)),
         multilines |-> ArrSet(st.multilines, c, Multilines(st.multilines, c) \/ info.multiline),
         multiline_col |-> info.multiline,
         multiline_row |-> (st.multiline_row \/ info.multiline)]

\* lines 241-253: the passes for columns lo .. hi-1 of row r, in order
RECURSIVE row_loop(_, _, _, _)
row_loop(r, lo, hi, st) ==
    IF lo >= hi THEN st
    ELSE IF hi = lo + 1 THEN row_field(r, lo, st)
    ELSE LET half == row_loop(r, lo, (lo + hi) \div 2, st)
         IN  IF half.locbuf >= 0 THEN row_loop(r, (lo + hi) \div 2, hi, half)
             ELSE half

\* the locals as a record is begun: locbuf at the start of a fresh payload
\* of `size` bytes, no field stored, multiline_row cleared (lines 203, 240)
begin_record(size, mcol) ==
    [buf |-> malloc(size), fields |-> <<>>, locbuf |-> 0,
     widths |-> pdesc.widths, multilines |-> pdesc.multilines,
     multiline_col |-> mcol, multiline_row |-> FALSE]

\* sizeof(char *) and offsetof(RowType, fields) of a 64-bit build; RowType is
\* a field count followed by the table of field pointers
sizeof_char_ptr == 8
offsetof_RowType_fields == 8

\* lines 197 and 234: the bytes asked for a RowType of n fields
row_size(n) == offsetof_RowType_fields + n * sizeof_char_ptr

\* line 41: sizeof(RowBucketType), at least its two arrays of BUCKET_ROWS slots
sizeof_RowBucketType == BUCKET_ROWS * sizeof_char_ptr + BUCKET_ROWS

\* a request malloc may refuse.  malloc(0) may return NULL as well: the C
\* library is free to answer a request of no bytes with a null pointer.
Refused(what, size) == [what |-> what, size |-> size]

HeaderTexts == [c \in 1..nfields |-> PQfname(c - 1)]
RowTexts(r) == [c \in 1..nfields |-> PQgetvalue(r, c - 1)]

(***************************************************************************)
(* pg_exec_query, step by step.                                            *)
(***************************************************************************)
envVars == <<opts, source, pre, fi, err_arg>>
localVars == <<nfields, i, row, multiline_row, multiline_col, nfolded>>

\* lines 156-159
Connect ==
    /\ pc = "start"
    /\ buckets' = [buckets EXCEPT ![rb].nrows = 0, ![rb].next_bucket = NULL]
    /\ conn' = IF source.conn_ok THEN "open" ELSE "bad"
    /\ calls' = Append(calls, "PQconnectdbParams")
    /\ pc' = "connecting"
    /\ UNCHANGED <<envVars, npush, failed, localVars, result, rb, pdesc, err, errmsg, ret, exitmsg>>

\* lines 162-166
ConnectionFailed ==
    /\ pc = "connecting"
    /\ conn # "open"
    /\ errmsg' = sprintf("Connection to database failed: %s", PQerrorMessage)
    /\ IF errmsg'.written > ERRMSG_SIZE
       THEN Leave(overrun)
       ELSE Leave(RELEASE_AND_LEAVE("errmsg"))
    /\ UNCHANGED <<envVars, npush, failed, localVars, buckets, rb, pdesc>>

\* line 172
Exec ==
    /\ pc = "connecting"
    /\ conn = "open"
    /\ result' = "open"
    /\ calls' = Append(calls, "PQexec")
    /\ pc' = "executed"
    /\ UNCHANGED <<envVars, npush, failed, localVars, conn, buckets, rb, pdesc, err, errmsg, ret, exitmsg>>

\* lines 173-177
QueryFailed ==
    /\ pc = "executed"
    /\ ~source.tuples_ok
    /\ errmsg' = sprintf("Query doesn't return data: %s", PQerrorMessage)
    /\ IF errmsg'.written > ERRMSG_SIZE
       THEN Leave(overrun)
       ELSE Leave(RELEASE_AND_LEAVE("errmsg"))
    /\ UNCHANGED <<envVars, npush, failed, localVars, buckets, rb, pdesc>>

\* lines 179-180
TooManyColumns ==
    /\ pc = "executed"
    /\ source.tuples_ok
    /\ too_many_columns(PQnfields)
    /\ nfields' = PQnfields
    /\ Leave(RELEASE_AND_EXIT("too much columns"))
    /\ UNCHANGED <<envVars, npush, failed, i, row, multiline_row, multiline_col, nfolded,
                   buckets, rb, pdesc, errmsg>>

InitDesc_unchecked ==
    /\ pc = "executed"
    /\ ~too_many_columns(PQnfields)
    /\ nfields' = PQnfields
    /\ pdesc' = [pdesc EXCEPT
                    !.nfields = PQnfields,
                    !.has_header = TRUE,
                    !.types = [c \in 0..(PQnfields - 1) |->
                                  column_type_class(PQftype(c))] @@ pdesc.types]
    /\ pc' = "header"
    /\ UNCHANGED <<envVars, npush, failed, i, row, multiline_row, multiline_col, nfolded,
                   conn, result, calls, buckets, rb, err, errmsg, ret, exitmsg>>

\* lines 179, 182-185
InitDesc ==
    /\ pc = "executed"
    /\ source.tuples_ok
    /\ ~too_many_columns(PQnfields)
    /\ nfields' = PQnfields
    /\ pdesc' = [pdesc EXCEPT
                    !.nfields = PQnfields,
                    !.has_header = TRUE,
                    !.types = [c \in 0..(PQnfields - 1) |->
                                  column_type_class(PQftype(c))] @@ pdesc.types]
    /\ pc' = "header"
    /\ UNCHANGED <<envVars, npush, failed, i, row, multiline_row, multiline_col, nfolded,
                   conn, result, calls, buckets, rb, err, errmsg, ret, exitmsg>>

\* lines 188-216 with both allocations granted; garbage is what the
\* uninitialised multiline_col holds when the loop first reads it
HeaderBuild ==
    /\ pc = "header"
    /\ \E garbage \in BOOLEAN :
         LET st == header_loop(0, nfields,
                       begin_record(payload_size(HeaderTexts, 0, nfields), garbage))
         IN  /\ row' = [id |-> 0, nfields |-> nfields, fields |-> st.fields, buf |-> st.buf]
             /\ pdesc' = [pdesc EXCEPT !.widths = st.widths, !.multilines = st.multilines]
             /\ multiline_row' = st.multiline_row
             /\ multiline_col' = st.multiline_col
    /\ nfolded' = 1
    /\ pc' = "header_built"
    /\ UNCHANGED <<envVars, npush, failed, nfields, i, conn, result, calls, buckets, rb, err,
                   errmsg, ret, exitmsg>>

\* lines 192-199 when malloc returns NULL for the payload or for the RowType
HeaderOutOfMemory ==
    /\ pc = "header"
    /\ \E request \in { Refused("locbuf", payload_size(HeaderTexts, 0, nfields)),
                         Refused("row", row_size(nfields)) } :
         failed' = request
    /\ Leave(EXIT_OUT_OF_MEMORY)
    /\ UNCHANGED <<envVars, npush, localVars, buckets, rb, pdesc, errmsg>>

\* lines 218-220; `new` is what malloc would return inside push_row
HeaderPush ==
    /\ pc = "header_built"
    /\ \E new \in {NULL, Len(buckets) + 1} :
         LET r == push_row(buckets, rb, row, multiline_row, new)
         IN  IF r.rb = NULL
             THEN /\ buckets' = r.buckets
                  /\ rb' = NULL
                  /\ failed' = Refused("bucket", sizeof_RowBucketType)
                  /\ Leave(EXIT_OUT_OF_MEMORY)
                  /\ UNCHANGED <<i, npush>>
             ELSE /\ buckets' = r.buckets
                  /\ rb' = r.rb
                  /\ npush' = npush + 1
                  /\ i' = 0
                  /\ pc' = "rows"
                  /\ UNCHANGED <<conn, result, calls, err, ret, exitmsg, failed>>
    /\ UNCHANGED <<envVars, nfields, row, multiline_row, multiline_col, nfolded,
                   pdesc, errmsg>>

\* the texts of row i become known
RevealRow ==
    /\ pc = "rows"
    /\ i < PQntuples
    /\ Len(source.value) <= i
    /\ \E values \in Records(nfields) :
         source' = [source EXCEPT !.value = Append(@, values)]
    /\ UNCHANGED <<opts, pre, npush, fi, failed, err_arg, localVars, pc, conn, result, calls,
                   buckets, rb, pdesc, err, errmsg, ret, exitmsg>>

\* lines 223-253 for row i with both allocations granted
RowBuild ==
    /\ pc = "rows"
    /\ i < PQntuples
    /\ Len(source.value) > i
    /\ LET st == row_loop(i, 0, nfields,
                     begin_record(payload_size(RowTexts(i), 0, nfields), multiline_col))
       IN  /\ row' = [id |-> i + 1, nfields |-> nfields, fields |-> st.fields, buf |-> st.buf]
           /\ pdesc' = [pdesc EXCEPT !.widths = st.widths, !.multilines = st.multilines]
           /\ multiline_row' = st.multiline_row
           /\ multiline_col' = st.multiline_col
    /\ nfolded' = nfolded + 1
    /\ pc' = "row_built"
    /\ UNCHANGED <<envVars, npush, failed, nfields, i, conn, result, calls, buckets, rb, err,
                   errmsg, ret, exitmsg>>

\* lines 229-236 when malloc returns NULL for the payload or for the RowType
RowOutOfMemory ==
    /\ pc = "rows"
    /\ i < PQntuples
    /\ Len(source.value) > i
    /\ \E request \in { Refused("locbuf", payload_size(RowTexts(i), 0, nfields)),
                         Refused("row", row_size(nfields)) } :
         failed' = request
    /\ Leave(EXIT_OUT_OF_MEMORY)
    /\ UNCHANGED <<envVars, npush, localVars, buckets, rb, pdesc, errmsg>>

\* lines 255-257 and the i++ of line 223
RowPush ==
    /\ pc = "row_built"
    /\ \E new \in {NULL, Len(buckets) + 1} :
         LET r == push_row(buckets, rb, row, multiline_row, new)
         IN  IF r.rb = NULL
             THEN /\ buckets' = r.buckets
                  /\ rb' = NULL
                  /\ failed' = Refused("bucket", sizeof_RowBucketType)
                  /\ Leave(EXIT_OUT_OF_MEMORY)
                  /\ UNCHANGED <<i, npush>>
             ELSE /\ buckets' = r.buckets
                  /\ rb' = r.rb
                  /\ npush' = npush + 1
                  /\ i' = i + 1
                  /\ pc' = "rows"
                  /\ UNCHANGED <<conn, result, calls, err, ret, exitmsg, failed>>
    /\ UNCHANGED <<envVars, nfields, row, multiline_row, multiline_col, nfolded,
                   pdesc, errmsg>>

Finish_past_the_end ==
    /\ pc = "rows"
    /\ i > PQntuples
    /\ Leave(finish_and_return)
    /\ UNCHANGED <<envVars, npush, failed, localVars, buckets, rb, pdesc, errmsg>>

\* line 223 when the rows are exhausted, lines 260-265
Finish ==
    /\ pc = "rows"
    /\ i >= PQntuples
    /\ Leave(finish_and_return)
    /\ UNCHANGED <<envVars, npush, failed, localVars, buckets, rb, pdesc, errmsg>>

Next ==
    \/ Connect
    \/ ConnectionFailed
    \/ Exec
    \/ QueryFailed
    \/ TooManyColumns
    \/ InitDesc
    \/ HeaderBuild
    \/ HeaderOutOfMemory
    \/ HeaderPush
    \/ RevealRow
    \/ RowBuild
    \/ RowOutOfMemory
    \/ RowPush
    \/ Finish

Spec == Init /\ [][Next]_vars

\* The call is synchronous and the source answers every call: at each place
\* of pg_exec_query the statement that stands there is executed.
Fairness ==
    /\ WF_vars(Connect)
    /\ WF_vars(ConnectionFailed \/ Exec)
    /\ WF_vars(QueryFailed \/ TooManyColumns \/ InitDesc)
    /\ WF_vars(HeaderOutOfMemory \/ HeaderBuild)
    /\ WF_vars(HeaderPush)
    /\ WF_vars(RevealRow)
    /\ WF_vars(RowOutOfMemory \/ RowBuild)
    /\ WF_vars(RowPush)
    /\ WF_vars(Finish)

SpecLive == Init /\ [][Next]_vars /\ Fairness

(***************************************************************************)
(* The failures with a long message: the connection is refused or the      *)
(* query yields no tuples, and the text libpq reports is about as long as   *)
(* errmsg.                                                                 *)
(***************************************************************************)
\* error texts of ERRMSG_SIZE - 40 .. ERRMSG_SIZE bytes
LongErrTexts == { [k \in 1..n |-> 101] : n \in (ERRMSG_SIZE - 40)..ERRMSG_SIZE }

LongFailSources ==
    { [conn_ok |-> c, tuples_ok |-> FALSE, errtext |-> e,
       nfields |-> 0, ntuples |-> 0, ftype |-> <<>>, fname |-> <<>>, value |-> <<>>] :
        c \in BOOLEAN, e \in LongErrTexts }

InitErr ==
    /\ pc = "start"
    /\ opts \in [force8bit : BOOLEAN]
    /\ source \in LongFailSources
    /\ pre \in PreStates
    /\ conn = "NULL"
    /\ result = "NULL"
    /\ calls = <<>>
    /\ buckets = <<PreBucket(pre)>>
    /\ rb = 1
    /\ pdesc = PreDesc(pre)
    /\ err = PreErr(pre)
    /\ errmsg = NoMsg
    /\ ret = "none"
    /\ exitmsg = ""
    /\ nfields = 0
    /\ i = 0
    /\ row = JunkRow
    /\ multiline_row = FALSE
    /\ multiline_col = FALSE
    /\ nfolded = 0
    /\ npush = 0
    /\ fi = NoCall
    /\ failed = NoFailure
    /\ err_arg = "caller"

NextErr ==
    \/ Connect
    \/ ConnectionFailed
    \/ Exec
    \/ QueryFailed

SpecErr == InitErr /\ [][NextErr]_vars

(***************************************************************************)
(* The build without HAVE_POSTGRESQL: the body of pg_exec_query is lines   *)
(* 267-273.  Line 269 reads `err = "Query cannot be executed. ..."` with   *)
(* no semicolon after it, so this body compiles only once the semicolon is *)
(* supplied; what it then does is modelled here.                           *)
(***************************************************************************)
\* line 269 assigns the parameter err, not *err; line 271 returns false
NoLibrary ==
    /\ pc = "start"
    /\ err_arg' = "literal"
    /\ ret' = "false"
    /\ calls' = Append(calls, "return")
    /\ pc' = "returned"
    /\ UNCHANGED <<opts, source, pre, fi, npush, failed, localVars, conn, result,
                   buckets, rb, pdesc, err, errmsg, exitmsg>>

NextNoLibrary == NoLibrary

SpecNoLibrary == Init /\ [][NextNoLibrary]_vars

(***************************************************************************)
(* The store on its own: push_row applied again and again to a head bucket *)
(* that starts empty.                                                      *)
(***************************************************************************)
\* the RowType handed to the n-th append (counted from 0) and its flag
PushedRow(n) == [id |-> n, nfields |-> 0, fields |-> <<>>, buf |-> <<>>]
PushedFlag(n) == n % 3 = 0

InitStore ==
    /\ pc = "store"
    /\ opts = [force8bit |-> FALSE]
    /\ source = Answer(0, 0, <<>>, <<>>, <<>>)
    /\ pre = "clean"
    /\ conn = "NULL"
    /\ result = "NULL"
    /\ calls = <<>>
    /\ buckets = <<PreBucket("clean")>>
    /\ rb = 1
    /\ pdesc = PreDesc("clean")
    /\ err = "NULL"
    /\ errmsg = NoMsg
    /\ ret = "none"
    /\ exitmsg = ""
    /\ nfields = 0
    /\ i = 0
    /\ row = JunkRow
    /\ multiline_row = FALSE
    /\ multiline_col = FALSE
    /\ nfolded = 0
    /\ npush = 0
    /\ fi = NoCall
    /\ failed = NoFailure
    /\ err_arg = "caller"

\* rb = push_row(rb, row, flag); a NULL result ends the appends
StorePush ==
    /\ pc = "store"
    /\ rb # NULL
    /\ npush < MaxPush
    /\ \E new \in {NULL, Len(buckets) + 1} :
         LET r == push_row(buckets, rb, PushedRow(npush), PushedFlag(npush), new)
         IN  /\ buckets' = r.buckets
             /\ rb' = r.rb
             /\ npush' = IF r.rb = NULL THEN npush ELSE npush + 1
    /\ UNCHANGED <<pc, opts, source, pre, conn, result, calls, pdesc, err, errmsg,
                   ret, exitmsg, nfields, i, row, multiline_row, multiline_col,
                   nfolded, fi, failed, err_arg>>

NextStore == StorePush

SpecStore == InitStore /\ [][NextStore]_vars

(***************************************************************************)
(* field_info on its own: one call on any short text, in either mode,      *)
(* with the caller's flag holding either value.                            *)
(***************************************************************************)
\* a line break and the letters a, b, c
Letters == {LF, 97, 98, 99}

Strings(n) == UNION { [1..k -> Letters] : k \in 0..n }

InitField ==
    /\ pc = "field"
    /\ opts \in [force8bit : BOOLEAN]
    /\ fi \in [str : Strings(MaxStrLen), multiline : BOOLEAN, done : {FALSE}, width : {0}]
    /\ source = Answer(0, 0, <<>>, <<>>, <<>>)
    /\ pre = "clean"
    /\ conn = "NULL"
    /\ result = "NULL"
    /\ calls = <<>>
    /\ buckets = <<PreBucket("clean")>>
    /\ rb = 1
    /\ pdesc = PreDesc("clean")
    /\ err = "NULL"
    /\ errmsg = NoMsg
    /\ ret = "none"
    /\ exitmsg = ""
    /\ nfields = 0
    /\ i = 0
    /\ row = JunkRow
    /\ multiline_row = FALSE
    /\ multiline_col = FALSE
    /\ nfolded = 0
    /\ npush = 0
    /\ failed = NoFailure
    /\ err_arg = "caller"

\* width = field_info(opts, str, &multiline)
CallFieldInfo ==
    /\ pc = "field"
    /\ ~fi.done
    /\ LET info == field_info(opts, fi.str, fi.multiline)
       IN  fi' = [str |-> fi.str, multiline |-> info.multiline, done |-> TRUE,
                  width |-> info.width]
    /\ UNCHANGED <<pc, opts, source, pre, conn, result, calls, buckets, rb, pdesc,
                   err, errmsg, ret, exitmsg, nfields, i, row, multiline_row,
                   multiline_col, nfolded, npush, failed, err_arg>>

NextField == CallFieldInfo

SpecField == InitField /\ [][NextField]_vars

(***************************************************************************)
(* Claims.                                                                 *)
(***************************************************************************)
\* n / d rounded up
CeilDiv(n, d) == (n + d - 1) \div d

\* C1: after N >= 1 successful appends to an empty head bucket the chain has
\* ceil(N/1000) buckets, all but the last hold exactly 1000 records, the last
\* holds the remaining N - 1000*(ceil(N/1000)-1) and has no next link, and no
\* bucket holds more than 1000; so 1000 appends fill one bucket, 1001 start
\* a second one with 1 record and 2000 fill exactly two.
C1_BucketChainShape ==
    npush >= 1 =>
        LET chain == Chain(buckets, 1)
            count == CeilDiv(npush, 1000)
        IN  /\ Len(chain) = count
            /\ \A k \in 1..(Len(chain) - 1) : buckets[chain[k]].nrows = 1000
            /\ buckets[chain[Len(chain)]].nrows = npush - 1000 * (count - 1)
            /\ buckets[chain[Len(chain)]].next_bucket = NULL
            /\ \A b \in 1..Len(buckets) : buckets[b].nrows <= 1000
            /\ (npush = 1000 => Len(chain) = 1 /\ buckets[1].next_bucket = NULL)
            /\ (npush = 1001 => Len(chain) = 2 /\ buckets[chain[2]].nrows = 1)
            /\ (npush = 2000 => Len(chain) = 2 /\ buckets[chain[1]].nrows = 1000
                                /\ buckets[chain[2]].nrows = 1000)

\* the 1001st append has just gone into a second bucket
C1_Witness ==
    /\ pc = "store"
    /\ npush = 1001
    /\ buckets[1].nrows = 1000
    /\ buckets[1].next_bucket = 2
    /\ buckets[2].nrows = 1

\* the longest run of bytes of s that holds no line break
LongestLine(s) ==
    CHOOSE n \in 0..Len(s) :
        /\ \E start \in 0..(Len(s) - n) : \A m \in (start + 1)..(start + n) : s[m] # LF
        /\ \A longer \in (n + 1)..Len(s) :
              ~ \E start \in 0..(Len(s) - longer) :
                    \A m \in (start + 1)..(start + longer) : s[m] # LF

\* C5: in force8bit mode field_info returns the byte length of the longest
\* line of the text and leaves the flag true exactly when the text holds a
\* line break, whatever the flag held before the call.
C5_NarrowWidthAndFlag ==
    (pc = "field" /\ fi.done /\ opts.force8bit) =>
        /\ fi.width = LongestLine(fi.str)
        /\ fi.multiline = HasLF(fi.str)

Range(seq) == { seq[k] : k \in 1..Len(seq) }

\* the call has completed: it returned true
Completed == pc = "returned" /\ ret = "true"

\* the text the source supplied for field c of the record with address id:
\* column name c for the header (id 0), cell (id - 1, c) for a data row
SuppliedText(id, c) == IF id = 0 THEN PQfname(c) ELSE PQgetvalue(id - 1, c)

\* field c of a stored record, read as the renderer reads it
FieldText(rec, c) == CStr(rec.buf, rec.fields[c + 1])

\* C2: when pg_exec_query has completed, the traversal from the head bucket
\* along next_bucket, slots 0 .. nrows-1 of each bucket, meets every record
\* exactly once in insertion order: the header, then data rows 0, 1, ...,
\* rowCount-1, each holding the texts of its own source row.
C2_TraversalInInsertionOrder ==
    Completed =>
        LET seen == Traverse(buckets, 1)
        IN  /\ Len(seen) = PQntuples + 1
            /\ \A k \in 1..Len(seen) :
                  /\ seen[k].id = k - 1
                  /\ \A c \in 0..(PQnfields - 1) :
                        FieldText(seen[k], c) = SuppliedText(k - 1, c)

\* a completed call whose traversal crosses from the head bucket into a second one
C2_Witness ==
    /\ Completed
    /\ Len(Chain(buckets, 1)) = 2
    /\ buckets[1].nrows = 1000
    /\ Len(Traverse(buckets, 1)) = 1001

\* C3: every record pg_exec_query has stored has nfields equal to the
\* result's column count, and each field reads back exactly the text the
\* source supplied, ends at a terminator of its own and is followed by the
\* next field, so that no field's bytes are part of another's.
C3_FieldsReadBack ==
    pc \notin {"start", "store", "field"} =>
        \A rec \in Range(Traverse(buckets, 1)) :
            /\ rec.nfields = PQnfields
            /\ Len(rec.fields) = PQnfields
            /\ \A c \in 0..(PQnfields - 1) :
                  LET text == SuppliedText(rec.id, c)
                      from == rec.fields[c + 1]
                  IN  /\ FieldText(rec, c) = text
                      /\ from + Len(text) + 1 <= Len(rec.buf)
                      /\ rec.buf[from + Len(text) + 1] = NUL
                      /\ from = IF c = 0 THEN 0
                                ELSE rec.fields[c] + Len(SuppliedText(rec.id, c - 1)) + 1

\* a completed call that stored a data row with an empty field before a non-empty one
C3_Witness ==
    /\ Completed
    /\ PQnfields = 2
    /\ PQntuples = 2
    /\ \E rec \in Range(Traverse(buckets, 1)) :
          /\ rec.id = 2
          /\ FieldText(rec, 0) = <<>>
          /\ FieldText(rec, 1) = <<195, 169, 49>>

\* the display width of a text in the mode of this call
DisplayWidth(text) == field_info(opts, text, FALSE).width

SetMax(S) == CHOOSE m \in S : \A x \in S : x <= m

\* C4: once N records (the header included) are folded in, widths[c] is the
\* largest display width of field c over those N records, whatever widths[c]
\* held before the call; so it never decreases from one record to the next.
C4_WidthIsRunningMaximum ==
    nfolded >= 1 =>
        \A c \in 0..(nfields - 1) :
            Widths(pdesc.widths, c) =
                SetMax({ DisplayWidth(SuppliedText(id, c)) : id \in 0..(nfolded - 1) })

\* a used layout (every width 9), three records folded, the last one
\* narrower in some column than an earlier one
C4_Witness ==
    /\ pre = "dirty"
    /\ nfolded = 3
    /\ \E c \in 0..(nfields - 1) :
          /\ DisplayWidth(SuppliedText(2, c)) < Widths(pdesc.widths, c)
          /\ DisplayWidth(SuppliedText(0, c)) < Widths(pdesc.widths, c)

\* C6: when pg_exec_query has completed, multilines[c] is true exactly when
\* some value of column c (its name or a cell of any row) holds a line break.
C6_ColumnMultilineIffSomeBreak ==
    Completed =>
        \A c \in 0..(nfields - 1) :
            Multilines(pdesc.multilines, c) =
                (\E id \in 0..PQntuples : HasLF(SuppliedText(id, c)))

\* C7: types[c] is set at header capture to the class of the column's
\* declared type ('d' for int2, int4, int8, float4, float8, numeric, oid,
\* xid, cid and cash, 'a' for any other type) and holds that value in every
\* later state, whatever the header and the rows contain.
C7_TypesFixedAtHeaderCapture ==
    pdesc.has_header =>
        \A c \in 0..(PQnfields - 1) :
            Types(pdesc.types, c) =
                IF PQftype(c) \in {"INT2OID", "INT4OID", "INT8OID", "FLOAT4OID",
                                   "FLOAT8OID", "NUMERICOID", "OIDOID", "XIDOID",
                                   "CIDOID", "CASHOID"}
                THEN "d" ELSE "a"

\* a completed call over a money column whose row has been folded
C7_Witness ==
    /\ Completed
    /\ PQnfields = 1
    /\ PQftype(0) = "CASHOID"
    /\ nfolded = 2
    /\ Types(pdesc.types, 0) = "d"

LastCalls(n) == SubSeq(calls, Len(calls) - n + 1, Len(calls))

\* C8: a result of more than 1024 columns makes pg_exec_query release the
\* result and the connection and then end the process, with no record in
\* the store and nothing of the layout written; a result of 1024 columns or
\* fewer is not rejected.
C8_TooManyColumnsIsFatal ==
    /\ (source.tuples_ok /\ PQnfields > 1024 /\ pc \notin {"start", "connecting", "executed"}) =>
          /\ pc = "exited"
          /\ exitmsg = "too much columns"
          /\ LastCalls(3) = <<"PQclear", "PQfinish", "leave_ncurses">>
          /\ result = "cleared"
          /\ conn = "finished"
          /\ Traverse(buckets, 1) = <<>>
          /\ pdesc = PreDesc(pre)
    /\ exitmsg = "too much columns" => PQnfields > 1024
    /\ (source.tuples_ok /\ PQnfields <= 1024 /\ pc \notin {"start", "connecting", "executed"}) =>
          pdesc.has_header

\* the process has ended on a result of 1025 columns
C8_Witness ==
    /\ pc = "exited"
    /\ exitmsg = "too much columns"
    /\ PQnfields = 1025
    /\ pre = "dirty"

\* C9: on a refused connection or a query that yields no tabular result
\* pg_exec_query returns false without ending the process, *err points to a
\* non-empty message, the store is empty (head bucket nrows = 0, no next
\* bucket) and the source is released.
C9_RecoverableFailure ==
    ((~source.conn_ok \/ ~source.tuples_ok) /\ pc \notin {"start", "connecting", "executed"}) =>
        /\ pc = "returned"
        /\ ret = "false"
        /\ exitmsg = ""
        /\ \A k \in 1..Len(calls) : calls[k] # "leave_ncurses"
        /\ err = "errmsg"
        /\ errmsg.fmt \in {"Connection to database failed: %s",
                           "Query doesn't return data: %s"}
        /\ errmsg.arg = PQerrorMessage
        /\ buckets[1].nrows = 0
        /\ buckets[1].next_bucket = NULL
        /\ result # "open"
        /\ conn = "finished"

\* a query that yielded no tuples, on a head bucket and an *err that were in use
C9_Witness ==
    /\ pc = "returned"
    /\ ret = "false"
    /\ source.conn_ok
    /\ pre = "dirty"
    /\ result = "cleared"

\* the places of a call in the order of calls
Places(name) == { k \in 1..Len(calls) : calls[k] = name }

\* C10: on every way out of pg_exec_query (completion, recoverable failure,
\* too many columns, out of memory) the result and the connection are
\* released before control leaves; on the fatal ways the releases come
\* before the call that ends the process, and are never skipped.
C10_ReleaseOnEveryExit ==
    /\ pc \in {"returned", "exited"} =>
          /\ result # "open"
          /\ conn = "finished"
          /\ Cardinality(Places("PQclear")) = 1
          /\ Cardinality(Places("PQfinish")) = 1
          /\ LastCalls(3) = <<"PQclear", "PQfinish",
                              IF pc = "exited" THEN "leave_ncurses" ELSE "return">>
    /\ \A k \in Places("leave_ncurses") \cup Places("return") :
          /\ k = Len(calls)
          /\ pc \in {"returned", "exited"}
          /\ \E c \in Places("PQclear") : \E f \in Places("PQfinish") : c < f /\ f < k

\* the process has ended for want of memory after two records were stored
C10_Witness ==
    /\ pc = "exited"
    /\ exitmsg = "out of memory"
    /\ Len(Traverse(buckets, 1)) = 2
    /\ LastCalls(3) = <<"PQclear", "PQfinish", "leave_ncurses">>

\* C11: when malloc refuses the payload, the RowType or a new bucket, the
\* call releases the result and the connection and ends the process; the
\* store then holds exactly the records appended before: every count adds up
\* to the appends made, the record under construction sits in no slot, and
\* every bucket there is belongs to the chain, initialised and with a record.
C11_AllocationFailureLeavesStoreWhole ==
    (failed.what # "none" \/ exitmsg = "out of memory") =>
        /\ failed.what \in {"locbuf", "row", "bucket"}
        /\ pc = "exited"
        /\ exitmsg = "out of memory"
        /\ ret = "none"
        /\ result = "cleared"
        /\ conn = "finished"
        /\ LastCalls(3) = <<"PQclear", "PQfinish", "leave_ncurses">>
        /\ LET stored == Traverse(buckets, 1)
               chain == Chain(buckets, 1)
           IN  /\ Len(stored) = npush
               /\ \A k \in 1..Len(stored) : stored[k].id = k - 1
               /\ failed.what = "bucket" =>
                     (row.id = npush /\ \A k \in 1..Len(stored) : stored[k] # row)
               /\ Len(chain) = Len(buckets)
               /\ \A k \in 2..Len(chain) :
                     /\ buckets[chain[k]].allocated
                     /\ buckets[chain[k]].nrows \in 1..BUCKET_ROWS
               /\ buckets[chain[Len(chain)]].next_bucket = NULL

\* malloc refused the second bucket: the head bucket is full, the record
\* built for the last row is in no slot
C11_Witness ==
    /\ pc = "exited"
    /\ failed.what = "bucket"
    /\ npush = BUCKET_ROWS
    /\ buckets[1].nrows = BUCKET_ROWS
    /\ row.id = BUCKET_ROWS

\* C12: an append by push_row leaves everything stored where it was: in
\* every bucket, each slot below the count the bucket had before the append
\* keeps its record reference and its multiline flag, and the next link of
\* every bucket but the tail appended to is unchanged.
C12_AppendMovesNothing ==
    [][\A b \in 1..Len(buckets) :
          /\ \A slot \in 0..(buckets[b].nrows - 1) :
                /\ buckets'[b].rows[slot + 1] = buckets[b].rows[slot + 1]
                /\ buckets'[b].multilines[slot + 1] = buckets[b].multilines[slot + 1]
          /\ b # rb => buckets'[b].next_bucket = buckets[b].next_bucket]_vars

\* 1500 appends made: the first record and its flag are still in slot 0 of
\* the head bucket, and the second bucket is half full
C12_Witness ==
    /\ pc = "store"
    /\ npush = 1500
    /\ buckets[1].rows[1] = PushedRow(0)
    /\ buckets[1].multilines[1] = PushedFlag(0)
    /\ buckets[1].rows[BUCKET_ROWS] = PushedRow(BUCKET_ROWS - 1)
    /\ buckets[2].nrows = 500

\* C13: when the rows are exhausted and nothing failed, pg_exec_query
\* returns true with *err NULL (whatever it held on entry), has_header true,
\* pdesc->nfields the result's column count, and rowCount + 1 records in the
\* store; 2 columns and 2 rows give 3 records.
C13_DoneOutcome ==
    /\ (pc = "returned" /\ source.conn_ok /\ source.tuples_ok) =>
          /\ ret = "true"
          /\ i = PQntuples
    /\ Completed =>
          /\ err = "NULL"
          /\ pdesc.has_header
          /\ pdesc.nfields = PQnfields
          /\ Len(Traverse(buckets, 1)) = PQntuples + 1
          /\ (PQnfields = 2 /\ PQntuples = 2) => Len(Traverse(buckets, 1)) = 3

\* 2 columns and 2 rows ingested, on an *err and a layout that were in use
C13_Witness ==
    /\ Completed
    /\ pre = "dirty"
    /\ PQnfields = 2
    /\ PQntuples = 2
    /\ err = "NULL"
    /\ Len(Traverse(buckets, 1)) = 3

\* C14: in the build without the library pg_exec_query attempts no
\* connection and no query, returns false, and the caller's *err is the
\* message of line 269.
C14_NoLibraryReportsMessage ==
    pc = "returned" =>
        /\ calls = <<"return">>
        /\ conn = "NULL"
        /\ result = "NULL"
        /\ ret = "false"
        /\ err = "literal"

\* the steps of the pipeline, as pairs of places
PipelineOrder ==
    { <<"start", "connecting">>,
      <<"connecting", "returned">>, <<"connecting", "executed">>,
      <<"executed", "returned">>, <<"executed", "exited">>, <<"executed", "header">>,
      <<"header", "exited">>, <<"header", "header_built">>,
      <<"header_built", "exited">>, <<"header_built", "rows">>,
      <<"rows", "exited">>, <<"rows", "row_built">>, <<"rows", "returned">>,
      <<"row_built", "exited">>, <<"row_built", "rows">> }

\* what holds of the appends and folds made so far, in every state
OrderedSoFar ==
    /\ (npush > 0 \/ nfolded > 0 \/ pdesc # PreDesc(pre)) =>
          /\ source.conn_ok
          /\ source.tuples_ok
          /\ PQnfields <= 1024
          /\ SubSeq(calls, 1, 2) = <<"PQconnectdbParams", "PQexec">>
    /\ pc # "start" =>
          LET stored == Traverse(buckets, 1)
          IN  /\ Len(stored) = npush
              /\ \A k \in 1..npush : stored[k].id = k - 1
    /\ nfolded \in {npush, npush + 1}
    /\ pc \in {"header_built", "row_built"} => (nfolded = npush + 1 /\ row.id = npush)
    /\ pc \in {"header", "rows"} => nfolded = npush

\* what holds of every step
OrderedStep ==
    /\ pc' # pc => <<pc, pc'>> \in PipelineOrder
    /\ pdesc' # pdesc => pc \in {"executed", "header", "rows"}
    /\ nfolded' # nfolded =>
          /\ pc \in {"header", "rows"}
          /\ nfolded' = nfolded + 1
          /\ npush = nfolded
    /\ npush' # npush =>
          /\ pc \in {"header_built", "row_built"}
          /\ npush' = npush + 1
          /\ nfolded = npush + 1
          /\ (npush = 0) = (pc = "header_built")

\* C15: the steps come only in the order connect, execute, column check,
\* layout initialisation, header build and fold, header append, then row by
\* row build and fold, append; nothing is appended and nothing of the layout
\* is written unless the connection was made, the query gave tuples and the
\* columns are at most 1024; the header is appended once, before any row;
\* each record is folded once, and before it is appended.
C15_PipelineOrder == []OrderedSoFar /\ [][OrderedStep]_vars

\* the header and one row are appended; the second row is folded and not
\* yet appended
C15_Witness ==
    /\ pc = "row_built"
    /\ npush = 2
    /\ nfolded = 3
    /\ row.id = 2
    /\ Len(Traverse(buckets, 1)) = 2

\* the places where pg_exec_query has ended
Terminal == {"returned", "exited"}

\* C16: with a source that answers every call and a finite row count,
\* pg_exec_query reaches one terminal outcome: it returns true, or returns
\* false, or the process ends on a fatal failure.  It takes no step after
\* that, and a call that ended the process has returned nothing.
C16_ReachesOneOutcome ==
    /\ <>(pc \in Terminal)
    /\ [](pc = "returned" => ret \in {"true", "false"})
    /\ [](pc = "exited" => (ret = "none" /\ exitmsg # ""))
    /\ [](pc \notin Terminal => (ret = "none" /\ exitmsg = ""))
    /\ [][pc \notin Terminal]_vars

\* the call over the 1000-row result has returned true
C16_Witness ==
    /\ pc = "returned"
    /\ ret = "true"
    /\ PQntuples = BUCKET_ROWS
    /\ i = BUCKET_ROWS

\* C17: in every state of the store the flag kept next to a record is true
\* exactly when some field of that record holds a line break.
C17_StoredFlagIffRecordBreak ==
    pc # "start" =>
        LET stored == Traverse(buckets, 1)
            flags == TraverseFlags(buckets, 1)
        IN  \A k \in 1..Len(stored) :
                flags[k] = (\E c \in 0..(stored[k].nfields - 1) :
                               HasLF(FieldText(stored[k], c)))

\* C18: the message formatted for a recoverable failure (prefix, the
\* source's error text, terminator) fits the 1024 bytes of errmsg, whatever
\* the length of the error text.
C18_MessageFitsErrmsg ==
    errmsg.written <= 1024

\* C19: a result of zero columns is ingested to the end, with rowCount + 1
\* records of zero fields in the store, and is not reported as out of
\* memory as long as every request of one byte or more is granted: the
\* request of zero bytes for its payload does not count as a failure.
C19_ZeroColumnsIngested ==
    (source.conn_ok /\ source.tuples_ok /\ PQnfields = 0) =>
        /\ (failed.what # "none" \/ exitmsg = "out of memory") => failed.size > 0
        /\ Completed =>
              /\ Len(Traverse(buckets, 1)) = PQntuples + 1
              /\ \A k \in 1..(PQntuples + 1) : Traverse(buckets, 1)[k].nfields = 0
====
